---- MODULE Spec2Model ----
(***************************************************************************)
(* Used Car Price Explorer (final_code-part2.py): a Streamlit script.      *)
(* The script is run top to bottom once per user interaction.  The widget  *)
(* values live in the session between runs; everything else is recomputed. *)
(*                                                                         *)
(* A DataFrame is modelled by its index: a sequence of row labels of df    *)
(* (df[mask] keeps the labels of the rows it keeps).  price_usd is held in *)
(* thousandths of a dollar so that round(x, 2) is a real rounding;         *)
(* mileage_kmpl in tenths.  A mean is the pair (sum, n), compared exactly  *)
(* (floating-point summation error is not modelled).  engine_cc is only    *)
(* hover text of the scatter chart and is left out.                        *)
(***************************************************************************)
EXTENDS Integers, Sequences, FiniteSets, TLC

\* ---------------------------------------------------------------- bounds
MaxRows == 2
WideBrands == 16
MaxChanges == 2

\* ------------------------------------------------------ program constants
TopBrands == 15
TableRows == 100
OwnerSliderMin == 1

\* NaN of a categorical column, and the "no restriction" entry of a selectbox
NULL == "<NaN>"
All == "All"

\* ------------------------------------------------------------- the inputs
\* Brand names in the order Python's sorted() gives them (code point order).
BrandOrder ==
  <<"Audi", "BMW", "Chevrolet", "Dodge", "Fiat", "Ford", "Honda", "Hyundai",
    "Jeep", "Kia", "Lexus", "Mazda", "Nissan", "Peugeot", "Renault", "Skoda",
    "Subaru", "Suzuki", "Tesla", "Toyota", "Volkswagen", "Volvo">>

BrandRank(b) == CHOOSE i \in 1..Len(BrandOrder) : BrandOrder[i] = b

Rec(y, b, f, t, p, o, s, m) ==
  [make_year |-> y, brand |-> b, fuel_type |-> f, transmission |-> t,
   price_usd |-> p, owner_count |-> o, service_history |-> s, mileage_kmpl |-> m]

\* Listings the small datasets are made of.  The first two are the listings
\* of the documented scenario; the others bring a null fuel type and service
\* history, a fuel type that differs in case only, a price with a third
\* decimal, and two brands with the same mean price.
RecordPool ==
  { Rec(2018, "Toyota", "Petrol", "Manual",    10000000, 1, "Full",    152),
    Rec(2020, "Honda",  "Diesel", "Automatic", 15000000, 2, "Partial", 180),
    Rec(2019, "Toyota", "petrol", "Automatic", 20000000, 2, NULL,      141),
    Rec(2020, "Honda",  NULL,     "Manual",    20000000, 3, "Full",    165),
    Rec(2018, "Audi",   "Diesel", "Automatic",  9999996, 1, NULL,      120) }

SmallDatasets == UNION { [1..n -> RecordPool] : n \in 1..MaxRows }

\* A dataset of WideBrands listings, one per brand: the even-ranked brands
\* from the last to the first, then the odd-ranked ones likewise, so that
\* consecutive listings are of brands that are not neighbours in brand order.
\* Prices fall by row, except that rows k and k+1 share a price.
WideBrandOf(i) ==
  LET h == WideBrands \div 2
  IN IF i <= h THEN BrandOrder[2 * (h - i + 1)]
     ELSE BrandOrder[2 * (WideBrands - i) + 1]

WideDataset(k) ==
  [i \in 1..WideBrands |->
     Rec(2019, WideBrandOf(i), "Petrol", "Manual",
         30000000 - 1000000 * (IF i <= k THEN i ELSE i - 1), 1, "Full", 150)]

\* the shared price among the highest, across the cut of the chart, and last
WideDatasets == { WideDataset(k) : k \in {1, TopBrands, WideBrands - 1} }

Datasets == SmallDatasets \cup WideDatasets

\* ---------------------------------------------------------------- state
VARIABLES
  df,               \* the loaded dataset: a sequence of listings
  year_range,       \* <<lo, hi>> of the model-year slider
  selected_brands,  \* the brand multiselect
  selected_fuel,    \* the fuel-type selectbox
  selected_trans,   \* the transmission multiselect
  price_range,      \* <<lo, hi>> of the price slider
  max_owners,       \* the owners slider
  service_choice,   \* the service-history selectbox
  filtered_df,      \* index of df[mask]
  rendered,         \* the elements on the page
  metrics,          \* <<count, price sum, mileage sum>>
  fig_scatter,      \* index of the frame the scatter chart plots
  avg_price_by_brand,
  fig_bar,
  avg_price_by_year,
  table,
  pc,               \* where the script run is
  changes           \* widget changes made in the session

widgets == <<year_range, selected_brands, selected_fuel, selected_trans,
             price_range, max_owners, service_choice>>
outputs == <<filtered_df, rendered, metrics, fig_scatter, avg_price_by_brand,
             fig_bar, avg_price_by_year, table>>
vars == <<df, widgets, outputs, pc, changes>>

\* ------------------------------------------------------------- helpers
SetMin(S) == CHOOSE x \in S : \A y \in S : x <= y
SetMax(S) == CHOOSE x \in S : \A y \in S : x >= y

\* round(x, 2) of a price held in thousandths.  The listings' third decimals
\* are never 5, where the result would depend on the binary value of x.
Round2(p) ==
  CASE p % 10 < 5 -> p - (p % 10)
    [] p % 10 > 5 -> p - (p % 10) + 10

DistinctWithNull(col) == { df[i][col] : i \in DOMAIN df }

\* Series.dropna().unique() as a set
DistinctNonNull(col) == { df[i][col] : i \in DOMAIN df } \ {NULL}

year_min == SetMin({ df[i].make_year : i \in DOMAIN df })
year_max == SetMax({ df[i].make_year : i \in DOMAIN df })
brand_options == DistinctNonNull("brand")
fuel_options == {All} \cup DistinctNonNull("fuel_type")
trans_options == DistinctNonNull("transmission")
price_min == SetMin({ df[i].price_usd : i \in DOMAIN df })
price_max == SetMax({ df[i].price_usd : i \in DOMAIN df })
price_slider_min == Round2(price_min)
price_slider_max == Round2(price_max)
owner_max == SetMax({ df[i].owner_count : i \in DOMAIN df })
service_options == {All} \cup DistinctNonNull("service_history")

BetweenExclusive(x, lo, hi) == lo < x /\ x < hi

\* Series.between(lo, hi): inclusive on both ends
Between(x, lo, hi) == lo <= x /\ x <= hi

EqualsOrNull(x, v) == x = NULL \/ x = v

\* Series == value: NaN equals nothing
EqualsValue(x, v) == x # NULL /\ x = v

\* the boolean mask of lines 87-99, at row label i
Mask(i) ==
  /\ Between(df[i].make_year, year_range[1], year_range[2])
  /\ df[i].brand \in selected_brands
  /\ df[i].transmission \in selected_trans
  /\ Between(df[i].price_usd, price_range[1], price_range[2])
  /\ df[i].owner_count <= max_owners
  /\ (selected_fuel # All => EqualsValue(df[i].fuel_type, selected_fuel))
  /\ (service_choice # All => EqualsValue(df[i].service_history, service_choice))

RECURSIVE BoolIndexReversed(_)
BoolIndexReversed(frame) ==
  IF frame = <<>> THEN <<>>
  ELSE IF Mask(Head(frame)) THEN BoolIndexReversed(Tail(frame)) \o <<Head(frame)>>
       ELSE BoolIndexReversed(Tail(frame))

BoolIndexSkipFirst(frame) ==
  LET kept == SelectSeq(frame, LAMBDA i : Mask(i))
  IN IF kept = <<>> THEN <<>> ELSE Tail(kept)

\* frame[mask]: the rows of the frame whose mask is set, in the frame's order
RECURSIVE BoolIndex(_)
BoolIndex(frame) ==
  IF frame = <<>> THEN <<>>
  ELSE IF Mask(Head(frame)) THEN <<Head(frame)>> \o BoolIndex(Tail(frame))
       ELSE BoolIndex(Tail(frame))

DfIndex == [i \in 1..Len(df) |-> i]

\* ------------------------------------------------------------------ Init
Init ==
  /\ df \in Datasets
  /\ year_range = <<year_min, year_max>>
  /\ selected_brands = brand_options
  /\ selected_fuel = All
  /\ selected_trans = trans_options
  /\ price_range = <<price_slider_min, price_slider_max>>
  /\ max_owners = owner_max
  /\ service_choice = All
  /\ filtered_df = <<>>
  /\ rendered = {}
  /\ metrics = <<>>
  /\ fig_scatter = <<>>
  /\ avg_price_by_brand = <<>>
  /\ fig_bar = <<>>
  /\ avg_price_by_year = <<>>
  /\ table = <<>>
  /\ pc = "apply"
  /\ changes = 0

\* lines 87-101
ApplyFilters ==
  /\ pc = "apply"
  /\ filtered_df' = BoolIndex(DfIndex)
  /\ pc' = "check"
  /\ UNCHANGED <<df, widgets, rendered, metrics, fig_scatter, avg_price_by_brand,
                 fig_bar, avg_price_by_year, table, changes>>

CheckEmptyNoStop ==
  /\ pc = "check"
  /\ rendered' = IF filtered_df = <<>> THEN rendered \cup {"warning"} ELSE rendered
  /\ pc' = "metrics"
  /\ UNCHANGED <<df, widgets, filtered_df, metrics, fig_scatter, avg_price_by_brand,
                 fig_bar, avg_price_by_year, table, changes>>

\* lines 103-105: an empty frame is reported and the run ends there
CheckEmpty ==
  /\ pc = "check"
  /\ IF filtered_df = <<>>
       THEN /\ rendered' = rendered \cup {"warning"}
            /\ pc' = "stopped"
       ELSE /\ rendered' = rendered
            /\ pc' = "metrics"
  /\ UNCHANGED <<df, widgets, filtered_df, metrics, fig_scatter, avg_price_by_brand,
                 fig_bar, avg_price_by_year, table, changes>>

RECURSIVE SumCol(_, _)
SumCol(frame, col) ==
  IF frame = <<>> THEN 0 ELSE df[Head(frame)][col] + SumCol(Tail(frame), col)

\* lines 109-115: len(), price_usd.mean() and mileage_kmpl.mean() as (sum, n)
Metrics ==
  /\ pc = "metrics"
  /\ metrics' = <<Len(filtered_df), SumCol(filtered_df, "price_usd"),
                  SumCol(filtered_df, "mileage_kmpl")>>
  /\ rendered' = rendered \cup {"metrics"}
  /\ pc' = "scatter"
  /\ UNCHANGED <<df, widgets, filtered_df, fig_scatter, avg_price_by_brand,
                 fig_bar, avg_price_by_year, table, changes>>

\* lines 119-133
ScatterChart ==
  /\ pc = "scatter"
  /\ fig_scatter' = filtered_df
  /\ rendered' = rendered \cup {"scatter"}
  /\ pc' = "bar"
  /\ UNCHANGED <<df, widgets, filtered_df, metrics, avg_price_by_brand,
                 fig_bar, avg_price_by_year, table, changes>>

HeadOneMore(s, n) == SubSeq(s, 1, IF Len(s) < n + 1 THEN Len(s) ELSE n + 1)

\* DataFrame.head(n)
HeadN(s, n) == SubSeq(s, 1, IF Len(s) < n THEN Len(s) ELSE n)

\* the rows of the frame whose column col holds key
RECURSIVE RowsOf(_, _, _)
RowsOf(frame, col, key) ==
  IF frame = <<>> THEN <<>>
  ELSE IF df[Head(frame)][col] = key
       THEN <<Head(frame)>> \o RowsOf(Tail(frame), col, key)
       ELSE RowsOf(Tail(frame), col, key)

\* mean of price_usd over a group, as (sum, n)
GroupMean(frame, col, key) ==
  [key |-> key, sum |-> SumCol(RowsOf(frame, col, key), "price_usd"),
   n |-> Len(RowsOf(frame, col, key))]

\* a.mean < b.mean
MeanLess(a, b) == a.sum * b.n < b.sum * a.n
MeanEq(a, b) == a.sum * b.n = b.sum * a.n

\* the keys in ascending order of rank, rank a function on the keys
RECURSIVE SortedKeys(_, _)
SortedKeys(S, rank) ==
  IF S = {} THEN <<>>
  ELSE LET k == CHOOSE x \in S : \A y \in S : rank[x] <= rank[y]
       IN <<k>> \o SortedKeys(S \ {k}, rank)

\* the group keys of groupby(col): the distinct values of the column
GroupKeys(frame, col) == { df[frame[i]][col] : i \in DOMAIN frame }

\* groupby("brand")["price_usd"].mean(): one entry per brand, in sorted
\* brand order (groupby sorts its keys and drops NaN)
GroupByBrandMean(frame) ==
  LET keys == SortedKeys(GroupKeys(frame, "brand") \ {NULL},
                         [b \in GroupKeys(frame, "brand") \ {NULL} |-> BrandRank(b)])
  IN [i \in 1..Len(keys) |-> GroupMean(frame, "brand", keys[i])]

\* the places where g may go into s, s being in descending order of mean
InsertDesc(s, g) ==
  { SubSeq(s, 1, p - 1) \o <<g>> \o SubSeq(s, p, Len(s)) :
      p \in { q \in 1..(Len(s) + 1) :
                /\ \A j \in 1..(q - 1) : ~MeanLess(s[j], g)
                /\ \A j \in q..Len(s) : ~MeanLess(g, s[j]) } }

NoSort(s) == {s}

\* Series.sort_values(ascending=False): the default sort is not stable, so
\* entries with equal means come out in any order
RECURSIVE SortValuesDesc(_)
SortValuesDesc(s) ==
  IF s = <<>> THEN {<<>>}
  ELSE UNION { InsertDesc(t, Head(s)) : t \in SortValuesDesc(Tail(s)) }

\* lines 137-150
BrandChart ==
  /\ pc = "bar"
  /\ avg_price_by_brand' \in SortValuesDesc(GroupByBrandMean(filtered_df))
  /\ fig_bar' = HeadN(avg_price_by_brand', TopBrands)
  /\ rendered' = rendered \cup {"bar"}
  /\ pc' = "line"
  /\ UNCHANGED <<df, widgets, filtered_df, metrics, fig_scatter,
                 avg_price_by_year, table, changes>>

\* groupby("make_year")["price_usd"].mean().reset_index(): one row per year,
\* in ascending year order
GroupByYearMean(frame) ==
  LET keys == SortedKeys(GroupKeys(frame, "make_year"),
                         [y \in GroupKeys(frame, "make_year") |-> y])
  IN [i \in 1..Len(keys) |-> GroupMean(frame, "make_year", keys[i])]

RECURSIVE SortByYearDesc(_)
SortByYearDesc(s) ==
  IF s = <<>> THEN <<>>
  ELSE LET t == SortByYearDesc(Tail(s))
           p == Cardinality({ j \in 1..Len(t) : t[j].key >= Head(s).key })
       IN SubSeq(t, 1, p) \o <<Head(s)>> \o SubSeq(t, p + 1, Len(t))

\* DataFrame.sort_values("make_year"): the keys are distinct, so the result
\* does not depend on the sort being stable
RECURSIVE SortByYear(_)
SortByYear(s) ==
  IF s = <<>> THEN <<>>
  ELSE LET t == SortByYear(Tail(s))
           p == Cardinality({ j \in 1..Len(t) : t[j].key <= Head(s).key })
       IN SubSeq(t, 1, p) \o <<Head(s)>> \o SubSeq(t, p + 1, Len(t))

\* lines 154-167
YearChart ==
  /\ pc = "line"
  /\ avg_price_by_year' = SortByYear(GroupByYearMean(filtered_df))
  /\ rendered' = rendered \cup {"line"}
  /\ pc' = "table"
  /\ UNCHANGED <<df, widgets, filtered_df, metrics, fig_scatter,
                 avg_price_by_brand, fig_bar, table, changes>>

\* lines 171-172
DataTable ==
  /\ pc = "table"
  /\ table' = HeadN(filtered_df, TableRows)
  /\ rendered' = rendered \cup {"table"}
  /\ pc' = "done"
  /\ UNCHANGED <<df, widgets, filtered_df, metrics, fig_scatter,
                 avg_price_by_brand, fig_bar, avg_price_by_year, changes>>

\* ------------------------------------------------------ user interaction
\* A widget change is taken when the run has ended; the script is then run
\* again from the top on an empty page.
Rerun ==
  /\ pc \in {"done", "stopped"}
  /\ changes < MaxChanges
  /\ changes' = changes + 1
  /\ pc' = "apply"
  /\ filtered_df' = <<>>
  /\ rendered' = {}
  /\ metrics' = <<>>
  /\ fig_scatter' = <<>>
  /\ avg_price_by_brand' = <<>>
  /\ fig_bar' = <<>>
  /\ avg_price_by_year' = <<>>
  /\ table' = <<>>
  /\ UNCHANGED df

\* lines 34-40: a range slider returns a pair lo <= hi within its ends
SetYearRange ==
  /\ \E lo, hi \in year_min..year_max :
       /\ lo <= hi
       /\ <<lo, hi>> # year_range
       /\ year_range' = <<lo, hi>>
  /\ Rerun
  /\ UNCHANGED <<selected_brands, selected_fuel, selected_trans, price_range,
                 max_owners, service_choice>>

\* lines 44-48: one option of the multiselect is added or removed
SetSelectedBrands ==
  /\ \E b \in brand_options :
       selected_brands' = IF b \in selected_brands THEN selected_brands \ {b}
                          ELSE selected_brands \cup {b}
  /\ Rerun
  /\ UNCHANGED <<year_range, selected_fuel, selected_trans, price_range,
                 max_owners, service_choice>>

\* lines 51-52
SetSelectedFuel ==
  /\ \E f \in fuel_options \ {selected_fuel} : selected_fuel' = f
  /\ Rerun
  /\ UNCHANGED <<year_range, selected_brands, selected_trans, price_range,
                 max_owners, service_choice>>

\* lines 56-60
SetSelectedTrans ==
  /\ \E t \in trans_options :
       selected_trans' = IF t \in selected_trans THEN selected_trans \ {t}
                         ELSE selected_trans \cup {t}
  /\ Rerun
  /\ UNCHANGED <<year_range, selected_brands, selected_fuel, price_range,
                 max_owners, service_choice>>

\* The positions of the price slider the user is taken to choose among: its
\* two ends and the rounded prices of the first MaxRows listings.
PriceStops ==
  {price_slider_min, price_slider_max}
    \cup { Round2(df[i].price_usd) : i \in 1..(IF Len(df) < MaxRows THEN Len(df) ELSE MaxRows) }

\* lines 65-70
SetPriceRange ==
  /\ \E lo, hi \in PriceStops :
       /\ lo <= hi
       /\ <<lo, hi>> # price_range
       /\ price_range' = <<lo, hi>>
  /\ Rerun
  /\ UNCHANGED <<year_range, selected_brands, selected_fuel, selected_trans,
                 max_owners, service_choice>>

\* lines 74-79
SetMaxOwners ==
  /\ \E o \in OwnerSliderMin..owner_max :
       /\ o # max_owners
       /\ max_owners' = o
  /\ Rerun
  /\ UNCHANGED <<year_range, selected_brands, selected_fuel, selected_trans,
                 price_range, service_choice>>

\* lines 82-83
SetServiceChoice ==
  /\ \E c \in service_options \ {service_choice} : service_choice' = c
  /\ Rerun
  /\ UNCHANGED <<year_range, selected_brands, selected_fuel, selected_trans,
                 price_range, max_owners>>

Next ==
  \/ ApplyFilters
  \/ CheckEmpty
  \/ Metrics
  \/ ScatterChart
  \/ BrandChart
  \/ YearChart
  \/ DataTable
  \/ SetYearRange
  \/ SetSelectedBrands
  \/ SetSelectedFuel
  \/ SetSelectedTrans
  \/ SetPriceRange
  \/ SetMaxOwners
  \/ SetServiceChoice

Spec == Init /\ [][Next]_vars

\* ================================================================ claims
\* what the claims speak of, written from the record fields alone
ViewRows == { filtered_df[k] : k \in DOMAIN filtered_df }
Applied == pc # "apply"
ViewBrands == { df[i].brand : i \in ViewRows }
ViewYears == { df[i].make_year : i \in ViewRows }

InYearRange(i) == year_range[1] <= df[i].make_year /\ df[i].make_year <= year_range[2]
InBrandSet(i) == \E b \in selected_brands : b = df[i].brand
InTransSet(i) == \E t \in selected_trans : t = df[i].transmission
InPriceRange(i) == price_range[1] <= df[i].price_usd /\ df[i].price_usd <= price_range[2]
WithinOwners(i) == ~(df[i].owner_count > max_owners)
FuelAccepted(i) == selected_fuel = All \/ df[i].fuel_type = selected_fuel
ServiceAccepted(i) == service_choice = All \/ df[i].service_history = service_choice

RECURSIVE PriceTotal(_)
PriceTotal(S) ==
  IF S = {} THEN 0
  ELSE LET i == CHOOSE x \in S : TRUE IN df[i].price_usd + PriceTotal(S \ {i})

RowsOfBrand(b) == { i \in ViewRows : df[i].brand = b }
FirstRow(b) == SetMin({ k \in DOMAIN filtered_df : df[filtered_df[k]].brand = b })

\* C1: a listing of the dataset is in the filtered view if and only if it
\* satisfies all seven predicates: year in range, brand accepted,
\* transmission accepted, price in range, owners within the maximum, fuel
\* type accepted and service history accepted.
FilterSoundAndComplete ==
  Applied =>
    \A i \in DOMAIN df :
      i \in ViewRows <=>
        /\ InYearRange(i)
        /\ InBrandSet(i)
        /\ InTransSet(i)
        /\ InPriceRange(i)
        /\ WithinOwners(i)
        /\ FuelAccepted(i)
        /\ ServiceAccepted(i)

FilterKeepsSomeDropsSome ==
  /\ pc = "check"
  /\ changes > 0
  /\ \E i \in DOMAIN df : i \in ViewRows
  /\ \E i \in DOMAIN df : i \notin ViewRows /\ ~InYearRange(i)
  /\ \E i \in DOMAIN df : i \in ViewRows /\ df[i].make_year = year_range[2]

\* C2: whenever the filtered view of a run is empty, the notice is shown
\* and the run stops with no metric, chart or table computed; the metrics,
\* charts and table are computed only from a non-empty view.
EmptyResultStops ==
  /\ (pc \notin {"apply", "check"} /\ filtered_df = <<>>) =>
        /\ pc = "stopped"
        /\ rendered = {"warning"}
        /\ metrics = <<>> /\ fig_scatter = <<>> /\ avg_price_by_brand = <<>>
        /\ fig_bar = <<>> /\ avg_price_by_year = <<>> /\ table = <<>>
  /\ (rendered \cap {"metrics", "scatter", "bar", "line", "table"} # {}) =>
        filtered_df # <<>> /\ "warning" \notin rendered
  /\ pc = "stopped" => filtered_df = <<>>

StoppedOnEmptyView ==
  /\ pc = "stopped"
  /\ "warning" \in rendered
  /\ selected_fuel # All
  /\ \A i \in DOMAIN df : df[i].fuel_type # selected_fuel \/ ~InTransSet(i)

\* C3: under the default selections (no widget changed) the filtered view
\* is the whole dataset, every listing in its place.
DefaultsReturnAll ==
  (Applied /\ changes = 0) => filtered_df = [i \in 1..Len(df) |-> i]

\* C4: the filtered view keeps the dataset's order, and no listing comes
\* more than once: its row labels are strictly increasing labels of df.
OrderPreserved ==
  Applied =>
    /\ \A k \in DOMAIN filtered_df : filtered_df[k] \in DOMAIN df
    /\ \A k, l \in DOMAIN filtered_df : k < l => filtered_df[k] < filtered_df[l]

ProperViewOfSeveral ==
  /\ pc = "done"
  /\ Len(filtered_df) >= 2
  /\ Len(filtered_df) < Len(df)
  /\ filtered_df[1] > 1

\* C5: the brand chart has at most 15 entries, one per brand, each with the
\* mean price of the view's listings of that brand, in descending order of
\* mean price, and a brand left out has a mean no higher than any brand kept.
BrandChartCorrect ==
  "bar" \in rendered =>
    /\ Len(fig_bar) <= TopBrands
    /\ \A k, l \in DOMAIN fig_bar : k # l => fig_bar[k].key # fig_bar[l].key
    /\ \A k \in DOMAIN fig_bar :
          /\ fig_bar[k].key \in ViewBrands
          /\ fig_bar[k].n = Cardinality(RowsOfBrand(fig_bar[k].key))
          /\ fig_bar[k].sum = PriceTotal(RowsOfBrand(fig_bar[k].key))
    /\ \A k, l \in DOMAIN fig_bar :
          k < l => fig_bar[k].sum * fig_bar[l].n >= fig_bar[l].sum * fig_bar[k].n
    /\ \A b \in ViewBrands :
          (\A k \in DOMAIN fig_bar : fig_bar[k].key # b) =>
            /\ Len(fig_bar) = TopBrands
            /\ \A k \in DOMAIN fig_bar :
                  fig_bar[k].sum * Cardinality(RowsOfBrand(b))
                    >= PriceTotal(RowsOfBrand(b)) * fig_bar[k].n

BrandChartTruncated ==
  /\ "bar" \in rendered
  /\ Cardinality(ViewBrands) > TopBrands
  /\ Len(fig_bar) = TopBrands

\* C6: the year chart is in strictly ascending year order and its years are
\* exactly the distinct years of the view.
YearChartCorrect ==
  "line" \in rendered =>
    /\ \A k, l \in DOMAIN avg_price_by_year :
          k < l => avg_price_by_year[k].key < avg_price_by_year[l].key
    /\ { avg_price_by_year[k].key : k \in DOMAIN avg_price_by_year } = ViewYears

YearsMetOutOfOrder ==
  /\ "line" \in rendered
  /\ Len(avg_price_by_year) >= 2
  /\ df[filtered_df[1]].make_year > df[filtered_df[2]].make_year

\* C7: applying the same selections to the filtered view gives the
\* filtered view again.
ApplyIdempotent ==
  Applied => BoolIndex(filtered_df) = filtered_df

NarrowedNonEmptyView ==
  /\ pc = "check"
  /\ filtered_df # <<>>
  /\ Len(filtered_df) < Len(df)
  /\ selected_brands # brand_options

\* C8 as stated: of two brands with equal mean price, the one whose first
\* listing comes earlier in the view is placed first in the sorted result.
TiesByFirstEncountered ==
  "bar" \in rendered =>
    \A k, l \in DOMAIN avg_price_by_brand :
      (k < l /\ MeanEq(avg_price_by_brand[k], avg_price_by_brand[l])) =>
        FirstRow(avg_price_by_brand[k].key) < FirstRow(avg_price_by_brand[l].key)

\* C8 as amended: two brands with equal mean price are separated in the
\* sorted result only by brands of that same mean price, and the chart is
\* the first 15 entries of that result; which of them comes first is not
\* settled by the order of the listings.
TiedBrandsTogether ==
  "bar" \in rendered =>
    /\ \A k, l \in DOMAIN avg_price_by_brand :
          (k < l /\ MeanEq(avg_price_by_brand[k], avg_price_by_brand[l])) =>
            \A m \in k..l : MeanEq(avg_price_by_brand[m], avg_price_by_brand[k])
    /\ Len(fig_bar) = (IF Len(avg_price_by_brand) < TopBrands
                         THEN Len(avg_price_by_brand) ELSE TopBrands)
    /\ \A k \in DOMAIN fig_bar : fig_bar[k] = avg_price_by_brand[k]

TieCutLaterBrandKept ==
  /\ "bar" \in rendered
  /\ Len(avg_price_by_brand) > TopBrands
  /\ MeanEq(avg_price_by_brand[TopBrands], avg_price_by_brand[TopBrands + 1])
  /\ FirstRow(avg_price_by_brand[TopBrands].key)
       > FirstRow(avg_price_by_brand[TopBrands + 1].key)

\* C9: a listing whose fuel type (service history) is null is never in the
\* view when a specific fuel type (service history) is selected, a listing
\* in the view then carries exactly the selected value, and with "All"
\* selected a null field keeps no listing out.
NullNeverMatches ==
  Applied =>
    \A i \in DOMAIN df :
      /\ (selected_fuel # All /\ df[i].fuel_type = NULL) => i \notin ViewRows
      /\ (service_choice # All /\ df[i].service_history = NULL) => i \notin ViewRows
      /\ (selected_fuel # All /\ i \in ViewRows) => df[i].fuel_type = selected_fuel
      /\ (service_choice # All /\ i \in ViewRows) =>
            df[i].service_history = service_choice
      /\ ( /\ df[i].fuel_type = NULL \/ df[i].service_history = NULL
           /\ df[i].fuel_type = NULL => selected_fuel = All
           /\ df[i].service_history = NULL => service_choice = All
           /\ InYearRange(i) /\ InBrandSet(i) /\ InTransSet(i)
           /\ InPriceRange(i) /\ WithinOwners(i)
           /\ FuelAccepted(i) /\ ServiceAccepted(i) ) => i \in ViewRows

NullFuelKeptOut ==
  /\ pc = "done"
  /\ selected_fuel # All
  /\ \E i \in DOMAIN df :
       /\ df[i].fuel_type = NULL
       /\ i \notin ViewRows
       /\ InYearRange(i) /\ InBrandSet(i) /\ InTransSet(i)
       /\ InPriceRange(i) /\ WithinOwners(i) /\ ServiceAccepted(i)

ObservedValues(col) == { v \in { df[i][col] : i \in DOMAIN df } : v # NULL }

\* C10 as stated: the selections are well formed: lower <= upper for both
\* ranges, non-empty brand and transmission sets, and every category named
\* is a non-null value of the dataset.
CriteriaWellFormed ==
  /\ year_range[1] <= year_range[2]
  /\ price_range[1] <= price_range[2]
  /\ selected_brands # {}
  /\ selected_trans # {}
  /\ selected_brands \subseteq ObservedValues("brand")
  /\ selected_trans \subseteq ObservedValues("transmission")
  /\ selected_fuel = All \/ selected_fuel \in ObservedValues("fuel_type")
  /\ service_choice = All \/ service_choice \in ObservedValues("service_history")

\* C10 as amended: lower <= upper for both ranges and every category named
\* is a non-null value of the dataset; the brand and transmission sets may
\* be empty.
CriteriaWithinObserved ==
  /\ year_range[1] <= year_range[2]
  /\ price_range[1] <= price_range[2]
  /\ selected_brands \subseteq ObservedValues("brand")
  /\ selected_trans \subseteq ObservedValues("transmission")
  /\ selected_fuel = All \/ selected_fuel \in ObservedValues("fuel_type")
  /\ service_choice = All \/ service_choice \in ObservedValues("service_history")

CriteriaChangedTwice ==
  /\ pc = "check"
  /\ changes >= 2
  /\ selected_brands = {}
  /\ selected_fuel # All
====
